---- MODULE Spec2Model ----
(***************************************************************************)
(* State-machine model of External/Rust/NullWindowModule/src/lib.rs: the   *)
(* entry point dngModuleGetApi_v1, the window operations and               *)
(* module_shutdown, together with the host's allocator, which the model    *)
(* keeps as a heap of blocks so that every alloc and free callback is      *)
(* accounted for.                                                          *)
(***************************************************************************)
EXTENDS Integers, Sequences, FiniteSets, TLC

VARIABLES
    heap,    \* the host allocator: the blocks it has handed out, the bad frees it saw
    owner,   \* ghost: block address -> the context the block was obtained for (0: none)
    ctxs,    \* live module contexts: context address -> NullWindowCtx
    recent,  \* ghost: context address -> what the calls that made its window were given
    last     \* the latest boundary call: operation, context, status, output, callbacks

vars == <<heap, owner, ctxs, recent, last>>

----------------------------------------------------------------------------
(* Bounds of the model *)

MaxBlocks == 3      \* blocks the host allocator can have handed out at one time
MaxTitleLen == 2    \* longest title size a caller passes
MaxDim == 1         \* largest width / height a caller passes
MaxHandle == 2      \* largest handle value a caller passes

----------------------------------------------------------------------------
(* ABI constants *)

DNG_STATUS_OK == 0
DNG_STATUS_FAIL == 1
DNG_STATUS_INVALID_ARG == 2
DNG_STATUS_OUT_OF_MEMORY == 3
DNG_STATUS_UNSUPPORTED == 4

DNG_ABI_VERSION_V1 == 1

\* size_of / align_of of the #[repr(C)] structs on a 64-bit target
SizeOfHostApi == 40
SizeOfWindowApi == 56
SizeOfModuleApi == 104
SizeOfCtx == 40
AlignOfCtx == 8
TitleAlign == 1
HandleSentinel == 1

NULL == 0

----------------------------------------------------------------------------
(* The host side: host tables, caller memory, the allocator *)

HostApi(ss, ver, u, a, f) ==
    [header |-> [struct_size |-> ss, abi_version |-> ver],
     user |-> u, alloc |-> a, free |-> f]

\* The host tables a host passes; a host pointer is an index into this list.
HostTables ==
    << HostApi(SizeOfHostApi, DNG_ABI_VERSION_V1, "userA", TRUE, TRUE),
       HostApi(SizeOfHostApi, DNG_ABI_VERSION_V1, "userB", TRUE, TRUE),
       HostApi(SizeOfHostApi, DNG_ABI_VERSION_V1, "userA", FALSE, TRUE),
       HostApi(SizeOfHostApi, DNG_ABI_VERSION_V1, "userA", TRUE, FALSE),
       HostApi(SizeOfHostApi, DNG_ABI_VERSION_V1 + 1, "userA", TRUE, TRUE),
       HostApi(SizeOfHostApi - 8, DNG_ABI_VERSION_V1, "userA", TRUE, TRUE),
       HostApi(SizeOfHostApi, DNG_ABI_VERSION_V1 + 1, "userA", FALSE, FALSE),
       HostApi(SizeOfHostApi - 8, DNG_ABI_VERSION_V1, "userA", FALSE, TRUE) >>

HostPtrs == 1..Len(HostTables)

\* Addresses: the allocator's blocks are at 1..MaxBlocks, everything the caller
\* owns (title bytes, descriptors, output slots) lies above them.
Addrs == 1..MaxBlocks
CallerPtrs == {MaxBlocks + 1, MaxBlocks + 2}
CallerByte(p, i) == 1 + ((p + i) % 2)
SomeAddr == MaxBlocks + 3

StrViews == [data : {NULL} \cup CallerPtrs, size : 0..MaxTitleLen]
Dims == 0..MaxDim
Descs == [width : Dims, height : Dims, title : StrViews, flags : {0, 1}]
Handles == 0..MaxHandle

NoView == [data |-> NULL, size |-> 0]
NoDesc == [width |-> 0, height |-> 0, title |-> NoView, flags |-> 0]

NoBlock == [live |-> FALSE, size |-> 0, align |-> 0, host |-> NULL, bytes |-> <<>>]

Live(hp, ptr) == ptr \in Addrs /\ hp.blocks[ptr].live

FreeAddrs(hp) == {a \in Addrs : ~hp.blocks[a].live}

\* What the alloc callback answers on the heap hp: a block at the lowest address
\* not handed out when the host grants the request and has one, null otherwise.
AllocAnswer(hp, grant) ==
    IF grant /\ FreeAddrs(hp) # {}
    THEN CHOOSE a \in FreeAddrs(hp) : \A b \in FreeAddrs(hp) : a <= b
    ELSE NULL

AllocCall(host, size, align, res) ==
    [kind |-> "alloc", host |-> host, user |-> HostTables[host].user,
     ptr |-> res, size |-> size, align |-> align]

FreeCall(host, ptr, size, align) ==
    [kind |-> "free", host |-> host, user |-> HostTables[host].user,
     ptr |-> ptr, size |-> size, align |-> align]

\* The heap after the alloc callback answered res for (size, align).
HostAlloc(hp, host, size, align, res) ==
    IF res = NULL THEN hp
    ELSE [hp EXCEPT !.blocks[res] =
             [live |-> TRUE, size |-> size, align |-> align, host |-> host,
              bytes |-> <<>>]]

\* The heap after the free callback received (ptr, size, align): the block is
\* handed back, unless it is not one handed out with that size and alignment,
\* which the allocator records as a fault.
HostFree(hp, ptr, size, align) ==
    IF Live(hp, ptr) /\ hp.blocks[ptr].size = size /\ hp.blocks[ptr].align = align
    THEN [hp EXCEPT !.blocks[ptr] = NoBlock]
    ELSE [hp EXCEPT !.faults = @ \cup {[ptr |-> ptr, size |-> size, align |-> align]}]

----------------------------------------------------------------------------
(* The module *)

\* ptr::copy_nonoverlapping(title.data, mem, title.size)
CopyBytes(title) == [i \in 1..title.size |-> CallerByte(title.data, i)]

\* free_title that hands the buffer back but keeps pointing at it
free_title_keeps_pointer(c, hp) ==
    IF c.title # NULL
    THEN [ctx  |-> c,
          heap |-> IF HostTables[c.host].free
                   THEN HostFree(hp, c.title, c.title_size, TitleAlign)
                   ELSE hp,
          cb   |-> IF HostTables[c.host].free
                   THEN <<FreeCall(c.host, c.title, c.title_size, TitleAlign)>>
                   ELSE <<>>]
    ELSE [ctx |-> c, heap |-> hp, cb |-> <<>>]

free_title(c, hp) ==
    IF c.title # NULL
    THEN [ctx  |-> [c EXCEPT !.title = NULL, !.title_size = 0],
          heap |-> IF HostTables[c.host].free
                   THEN HostFree(hp, c.title, c.title_size, TitleAlign)
                   ELSE hp,
          cb   |-> IF HostTables[c.host].free
                   THEN <<FreeCall(c.host, c.title, c.title_size, TitleAlign)>>
                   ELSE <<>>]
    ELSE [ctx |-> c, heap |-> hp, cb |-> <<>>]

\* alloc_copy_title that keeps the caller's pointer instead of copying
alloc_copy_title_borrows(c, hp, title, grant) ==
    IF title.size = 0
    THEN [ctx |-> c, heap |-> hp, cb |-> <<>>, status |-> DNG_STATUS_OK]
    ELSE IF title.data = NULL
    THEN [ctx |-> c, heap |-> hp, cb |-> <<>>, status |-> DNG_STATUS_INVALID_ARG]
    ELSE [ctx  |-> [c EXCEPT !.title = title.data, !.title_size = title.size],
          heap |-> hp, cb |-> <<>>, status |-> DNG_STATUS_OK]

\* grant: whether the host grants the allocation, should the callback be made.
\* alloc_copy_title without the shortcut for an empty title
alloc_copy_title_allocates_empty(c, hp, title, grant) ==
    LET mem == AllocAnswer(hp, grant) IN
    IF title.data = NULL
    THEN [ctx |-> c, heap |-> hp, cb |-> <<>>, status |-> DNG_STATUS_INVALID_ARG]
    ELSE IF ~HostTables[c.host].alloc
    THEN [ctx |-> c, heap |-> hp, cb |-> <<>>, status |-> DNG_STATUS_INVALID_ARG]
    ELSE IF mem = NULL
    THEN [ctx |-> c, heap |-> hp,
          cb |-> <<AllocCall(c.host, title.size, TitleAlign, NULL)>>,
          status |-> DNG_STATUS_OUT_OF_MEMORY]
    ELSE [ctx  |-> [c EXCEPT !.title = mem, !.title_size = title.size],
          heap |-> [HostAlloc(hp, c.host, title.size, TitleAlign, mem)
                        EXCEPT !.blocks[mem].bytes = CopyBytes(title)],
          cb   |-> <<AllocCall(c.host, title.size, TitleAlign, mem)>>,
          status |-> DNG_STATUS_OK]

alloc_copy_title(c, hp, title, grant) ==
    LET mem == AllocAnswer(hp, grant) IN
    IF title.size = 0
    THEN [ctx |-> c, heap |-> hp, cb |-> <<>>, status |-> DNG_STATUS_OK]
    ELSE IF title.data = NULL
    THEN [ctx |-> c, heap |-> hp, cb |-> <<>>, status |-> DNG_STATUS_INVALID_ARG]
    ELSE IF ~HostTables[c.host].alloc
    THEN [ctx |-> c, heap |-> hp, cb |-> <<>>, status |-> DNG_STATUS_INVALID_ARG]
    ELSE IF mem = NULL
    THEN [ctx |-> c, heap |-> hp,
          cb |-> <<AllocCall(c.host, title.size, TitleAlign, NULL)>>,
          status |-> DNG_STATUS_OUT_OF_MEMORY]
    ELSE [ctx  |-> [c EXCEPT !.title = mem, !.title_size = title.size],
          heap |-> [HostAlloc(hp, c.host, title.size, TitleAlign, mem)
                        EXCEPT !.blocks[mem].bytes = CopyBytes(title)],
          cb   |-> <<AllocCall(c.host, title.size, TitleAlign, mem)>>,
          status |-> DNG_STATUS_OK]

----------------------------------------------------------------------------
(* Boundary operations.  Each yields the contexts and heap it leaves, the  *)
(* callbacks it made, its status and what it wrote to its output slot      *)
(* (<<>> when it wrote nothing).                                           *)

Result(cs, hp, cb, status, out) ==
    [ctxs |-> cs, heap |-> hp, cb |-> cb, status |-> status, out |-> out]

Rejected(status) == Result(ctxs, heap, <<>>, status, <<>>)

\* What catch_unwind hands back for a body that panicked instead of returning a
\* status; Unwound(r) is the outcome of a body that panicked having made the
\* effects of r.
Err == 0 - 1

Unwound(r) == [r EXCEPT !.status = Err, !.out = <<>>]

\* catch_unwind_status that hands the body's outcome on as it is
catch_unwind_status_passes(r) == r.status

\* The status the call returns to the host for the outcome r of its body.
catch_unwind_status(r) ==
    IF r.status = Err THEN DNG_STATUS_FAIL ELSE r.status

\* window_create that validates the descriptor before it looks at the handle
window_create_validates_first(raw_ctx, desc, d, out_handle, grant) ==
    IF raw_ctx = NULL \/ desc = NULL \/ out_handle = NULL
    THEN Rejected(DNG_STATUS_INVALID_ARG)
    ELSE IF d.flags # 0
    THEN Rejected(DNG_STATUS_INVALID_ARG)
    ELSE IF d.title.size > 0 /\ d.title.data = NULL
    THEN Rejected(DNG_STATUS_INVALID_ARG)
    ELSE IF ctxs[raw_ctx].handle # 0
    THEN Rejected(DNG_STATUS_FAIL)
    ELSE
      LET sized == [ctxs[raw_ctx] EXCEPT !.size = [width |-> d.width, height |-> d.height]]
          fr    == free_title(sized, heap)
          al    == alloc_copy_title(fr.ctx, fr.heap, d.title, grant)
      IN  IF al.status # DNG_STATUS_OK
          THEN Result([ctxs EXCEPT ![raw_ctx] = al.ctx], al.heap, fr.cb \o al.cb,
                      al.status, <<>>)
          ELSE Result([ctxs EXCEPT ![raw_ctx] = [al.ctx EXCEPT !.handle = HandleSentinel]],
                      al.heap, fr.cb \o al.cb, DNG_STATUS_OK, <<HandleSentinel>>)

\* window_create that records the size before it looks at the handle
window_create_records_size_first(raw_ctx, desc, d, out_handle, grant) ==
    IF raw_ctx = NULL \/ desc = NULL \/ out_handle = NULL
    THEN Rejected(DNG_STATUS_INVALID_ARG)
    ELSE
      LET sized == [ctxs[raw_ctx] EXCEPT !.size = [width |-> d.width, height |-> d.height]]
          fr    == free_title(sized, heap)
          al    == alloc_copy_title(fr.ctx, fr.heap, d.title, grant)
      IN  IF ctxs[raw_ctx].handle # 0
          THEN Result([ctxs EXCEPT ![raw_ctx] = sized], heap, <<>>, DNG_STATUS_FAIL, <<>>)
          ELSE IF d.flags # 0 \/ (d.title.size > 0 /\ d.title.data = NULL)
          THEN Result([ctxs EXCEPT ![raw_ctx] = sized], heap, <<>>,
                      DNG_STATUS_INVALID_ARG, <<>>)
          ELSE IF al.status # DNG_STATUS_OK
          THEN Result([ctxs EXCEPT ![raw_ctx] = al.ctx], al.heap, fr.cb \o al.cb,
                      al.status, <<>>)
          ELSE Result([ctxs EXCEPT ![raw_ctx] = [al.ctx EXCEPT !.handle = HandleSentinel]],
                      al.heap, fr.cb \o al.cb, DNG_STATUS_OK, <<HandleSentinel>>)

\* window_create that hands out the handle before it has the title
window_create_marks_first(raw_ctx, desc, d, out_handle, grant) ==
    IF raw_ctx = NULL \/ desc = NULL \/ out_handle = NULL
    THEN Rejected(DNG_STATUS_INVALID_ARG)
    ELSE IF ctxs[raw_ctx].handle # 0
    THEN Rejected(DNG_STATUS_FAIL)
    ELSE IF d.flags # 0
    THEN Rejected(DNG_STATUS_INVALID_ARG)
    ELSE IF d.title.size > 0 /\ d.title.data = NULL
    THEN Rejected(DNG_STATUS_INVALID_ARG)
    ELSE
      LET sized == [ctxs[raw_ctx] EXCEPT !.size = [width |-> d.width, height |-> d.height],
                                         !.handle = HandleSentinel]
          fr    == free_title(sized, heap)
          al    == alloc_copy_title(fr.ctx, fr.heap, d.title, grant)
      IN  Result([ctxs EXCEPT ![raw_ctx] = al.ctx], al.heap, fr.cb \o al.cb,
                 al.status, <<HandleSentinel>>)

window_create(raw_ctx, desc, d, out_handle, grant) ==
    IF raw_ctx = NULL \/ desc = NULL \/ out_handle = NULL
    THEN Rejected(DNG_STATUS_INVALID_ARG)
    ELSE IF ctxs[raw_ctx].handle # 0
    THEN Rejected(DNG_STATUS_FAIL)
    ELSE IF d.flags # 0
    THEN Rejected(DNG_STATUS_INVALID_ARG)
    ELSE IF d.title.size > 0 /\ d.title.data = NULL
    THEN Rejected(DNG_STATUS_INVALID_ARG)
    ELSE
      LET sized == [ctxs[raw_ctx] EXCEPT !.size = [width |-> d.width, height |-> d.height]]
          fr    == free_title(sized, heap)
          al    == alloc_copy_title(fr.ctx, fr.heap, d.title, grant)
      IN  IF al.status # DNG_STATUS_OK
          THEN Result([ctxs EXCEPT ![raw_ctx] = al.ctx], al.heap, fr.cb \o al.cb,
                      al.status, <<>>)
          ELSE Result([ctxs EXCEPT ![raw_ctx] = [al.ctx EXCEPT !.handle = HandleSentinel]],
                      al.heap, fr.cb \o al.cb, DNG_STATUS_OK, <<HandleSentinel>>)

\* window_destroy that zeroes the handle and nothing else
window_destroy_handle_only(raw_ctx, handle) ==
    IF raw_ctx = NULL \/ handle = 0
    THEN Rejected(DNG_STATUS_INVALID_ARG)
    ELSE IF ctxs[raw_ctx].handle # handle
    THEN Rejected(DNG_STATUS_INVALID_ARG)
    ELSE Result([ctxs EXCEPT ![raw_ctx].handle = 0], heap, <<>>, DNG_STATUS_OK, <<>>)

\* window_destroy that leaves the size behind
window_destroy_keeps_size(raw_ctx, handle) ==
    IF raw_ctx = NULL \/ handle = 0
    THEN Rejected(DNG_STATUS_INVALID_ARG)
    ELSE IF ctxs[raw_ctx].handle # handle
    THEN Rejected(DNG_STATUS_INVALID_ARG)
    ELSE
      LET fr == free_title(ctxs[raw_ctx], heap)
      IN  Result([ctxs EXCEPT ![raw_ctx] = [fr.ctx EXCEPT !.handle = 0]],
                 fr.heap, fr.cb, DNG_STATUS_OK, <<>>)

window_destroy(raw_ctx, handle) ==
    IF raw_ctx = NULL \/ handle = 0
    THEN Rejected(DNG_STATUS_INVALID_ARG)
    ELSE IF ctxs[raw_ctx].handle # handle
    THEN Rejected(DNG_STATUS_INVALID_ARG)
    ELSE
      LET fr == free_title(ctxs[raw_ctx], heap)
      IN  Result([ctxs EXCEPT ![raw_ctx] =
                      [fr.ctx EXCEPT !.handle = 0, !.size = [width |-> 0, height |-> 0]]],
                 fr.heap, fr.cb, DNG_STATUS_OK, <<>>)

window_poll(raw_ctx) ==
    IF raw_ctx = NULL
    THEN Rejected(DNG_STATUS_INVALID_ARG)
    ELSE Rejected(DNG_STATUS_OK)

\* window_get_size that writes the size before it has checked the handle
window_get_size_writes_first(raw_ctx, handle, out_size) ==
    IF raw_ctx = NULL \/ out_size = NULL
    THEN Rejected(DNG_STATUS_INVALID_ARG)
    ELSE IF handle = 0 \/ ctxs[raw_ctx].handle # handle
    THEN Result(ctxs, heap, <<>>, DNG_STATUS_INVALID_ARG, <<ctxs[raw_ctx].size>>)
    ELSE Result(ctxs, heap, <<>>, DNG_STATUS_OK, <<ctxs[raw_ctx].size>>)

window_get_size(raw_ctx, handle, out_size) ==
    IF raw_ctx = NULL \/ out_size = NULL \/ handle = 0
    THEN Rejected(DNG_STATUS_INVALID_ARG)
    ELSE IF ctxs[raw_ctx].handle # handle
    THEN Rejected(DNG_STATUS_INVALID_ARG)
    ELSE Result(ctxs, heap, <<>>, DNG_STATUS_OK, <<ctxs[raw_ctx].size>>)

\* window_set_title without its own check of the title view
window_set_title_unchecked(raw_ctx, handle, title, grant) ==
    IF raw_ctx = NULL \/ handle = 0
    THEN Rejected(DNG_STATUS_INVALID_ARG)
    ELSE IF ctxs[raw_ctx].handle # handle
    THEN Rejected(DNG_STATUS_INVALID_ARG)
    ELSE
      LET fr == free_title(ctxs[raw_ctx], heap)
          al == alloc_copy_title(fr.ctx, fr.heap, title, grant)
      IN  Result([ctxs EXCEPT ![raw_ctx] = al.ctx], al.heap, fr.cb \o al.cb,
                 al.status, <<>>)

\* window_set_title that gives the window up when the new title cannot be held
window_set_title_drops_window(raw_ctx, handle, title, grant) ==
    IF raw_ctx = NULL \/ handle = 0
    THEN Rejected(DNG_STATUS_INVALID_ARG)
    ELSE IF ctxs[raw_ctx].handle # handle
    THEN Rejected(DNG_STATUS_INVALID_ARG)
    ELSE IF title.size > 0 /\ title.data = NULL
    THEN Rejected(DNG_STATUS_INVALID_ARG)
    ELSE
      LET fr == free_title(ctxs[raw_ctx], heap)
          al == alloc_copy_title(fr.ctx, fr.heap, title, grant)
      IN  Result([ctxs EXCEPT ![raw_ctx] =
                      IF al.status = DNG_STATUS_OK THEN al.ctx
                      ELSE [al.ctx EXCEPT !.handle = 0]],
                 al.heap, fr.cb \o al.cb, al.status, <<>>)

\* window_set_title that obtains the new buffer before it frees the old one
window_set_title_allocates_first(raw_ctx, handle, title, grant) ==
    IF raw_ctx = NULL \/ handle = 0
    THEN Rejected(DNG_STATUS_INVALID_ARG)
    ELSE IF ctxs[raw_ctx].handle # handle
    THEN Rejected(DNG_STATUS_INVALID_ARG)
    ELSE IF title.size > 0 /\ title.data = NULL
    THEN Rejected(DNG_STATUS_INVALID_ARG)
    ELSE
      LET al == alloc_copy_title([ctxs[raw_ctx] EXCEPT !.title = NULL, !.title_size = 0],
                                 heap, title, grant)
          fr == free_title(ctxs[raw_ctx], al.heap)
      IN  Result([ctxs EXCEPT ![raw_ctx] = al.ctx], fr.heap, al.cb \o fr.cb,
                 al.status, <<>>)

window_set_title(raw_ctx, handle, title, grant) ==
    IF raw_ctx = NULL \/ handle = 0
    THEN Rejected(DNG_STATUS_INVALID_ARG)
    ELSE IF ctxs[raw_ctx].handle # handle
    THEN Rejected(DNG_STATUS_INVALID_ARG)
    ELSE IF title.size > 0 /\ title.data = NULL
    THEN Rejected(DNG_STATUS_INVALID_ARG)
    ELSE
      LET fr == free_title(ctxs[raw_ctx], heap)
          al == alloc_copy_title(fr.ctx, fr.heap, title, grant)
      IN  Result([ctxs EXCEPT ![raw_ctx] = al.ctx], al.heap, fr.cb \o al.cb,
                 al.status, <<>>)

\* The contexts once the block at raw_ctx has been handed back to the host.
Released(cs, raw_ctx) == [p \in DOMAIN cs \ {raw_ctx} |-> cs[p]]

\* module_shutdown that releases the context block without its title
module_shutdown_leaks_title(raw_ctx, host) ==
    IF raw_ctx = NULL \/ host = NULL
    THEN Rejected(DNG_STATUS_INVALID_ARG)
    ELSE IF ~HostTables[host].free
    THEN Rejected(DNG_STATUS_INVALID_ARG)
    ELSE Result(Released(ctxs, raw_ctx),
                HostFree(heap, raw_ctx, SizeOfCtx, AlignOfCtx),
                <<FreeCall(host, raw_ctx, SizeOfCtx, AlignOfCtx)>>,
                DNG_STATUS_OK, <<>>)

module_shutdown(raw_ctx, host) ==
    IF raw_ctx = NULL \/ host = NULL
    THEN Rejected(DNG_STATUS_INVALID_ARG)
    ELSE
      LET fr == free_title(ctxs[raw_ctx], heap)
      IN  IF ~HostTables[host].free
          THEN Result([ctxs EXCEPT ![raw_ctx] = fr.ctx], fr.heap, fr.cb,
                      DNG_STATUS_INVALID_ARG, <<>>)
          ELSE Result(Released(ctxs, raw_ctx),
                      HostFree(fr.heap, raw_ctx, SizeOfCtx, AlignOfCtx),
                      fr.cb \o <<FreeCall(host, raw_ctx, SizeOfCtx, AlignOfCtx)>>,
                      DNG_STATUS_OK, <<>>)

\* ModuleApi whose window header carries the module table's size
ModuleApi_window_size_of_module(ctx) ==
    [header |-> [struct_size |-> SizeOfModuleApi, abi_version |-> DNG_ABI_VERSION_V1],
     module_name |-> "RustNullWindow",
     module_version |-> <<1, 0, 0>>,
     window |-> [header |-> [struct_size |-> SizeOfModuleApi,
                             abi_version |-> DNG_ABI_VERSION_V1],
                 ctx |-> ctx,
                 create |-> TRUE, destroy |-> TRUE, poll |-> TRUE,
                 get_size |-> TRUE, set_title |-> TRUE],
     shutdown |-> TRUE]

\* The module table written to out_api.
ModuleApi(ctx) ==
    [header |-> [struct_size |-> SizeOfModuleApi, abi_version |-> DNG_ABI_VERSION_V1],
     module_name |-> "RustNullWindow",
     module_version |-> <<1, 0, 0>>,
     window |-> [header |-> [struct_size |-> SizeOfWindowApi,
                             abi_version |-> DNG_ABI_VERSION_V1],
                 ctx |-> ctx,
                 create |-> TRUE, destroy |-> TRUE, poll |-> TRUE,
                 get_size |-> TRUE, set_title |-> TRUE],
     shutdown |-> TRUE]

\* The context as the entry point initialises it.
NewCtx(host) ==
    [host |-> host, handle |-> 0, size |-> [width |-> 0, height |-> 0],
     title |-> NULL, title_size |-> 0]

\* HeaderMismatch that compares the ABI version alone
HeaderMismatch_version_only(h) ==
    h.header.abi_version # DNG_ABI_VERSION_V1

\* The entry point's version gate on the host table h.
HeaderMismatch(h) ==
    \/ h.header.struct_size # SizeOfHostApi
    \/ h.header.abi_version # DNG_ABI_VERSION_V1

\* dngModuleGetApi_v1 that keeps one context and hands it out again
dngModuleGetApi_v1_singleton(host, out_api, grant) ==
    LET mem == AllocAnswer(heap, grant) IN
    IF host = NULL \/ out_api = NULL
    THEN Rejected(DNG_STATUS_INVALID_ARG)
    ELSE IF HeaderMismatch(HostTables[host])
    THEN Rejected(DNG_STATUS_UNSUPPORTED)
    ELSE IF ~HostTables[host].alloc \/ ~HostTables[host].free
    THEN Rejected(DNG_STATUS_INVALID_ARG)
    ELSE IF DOMAIN ctxs # {}
    THEN Result(ctxs, heap, <<>>, DNG_STATUS_OK,
                <<ModuleApi(CHOOSE p \in DOMAIN ctxs : TRUE)>>)
    ELSE IF mem = NULL
    THEN Result(ctxs, heap, <<AllocCall(host, SizeOfCtx, AlignOfCtx, NULL)>>,
                DNG_STATUS_OUT_OF_MEMORY, <<>>)
    ELSE Result((mem :> NewCtx(host)) @@ ctxs,
                HostAlloc(heap, host, SizeOfCtx, AlignOfCtx, mem),
                <<AllocCall(host, SizeOfCtx, AlignOfCtx, mem)>>,
                DNG_STATUS_OK, <<ModuleApi(mem)>>)

\* dngModuleGetApi_v1 that looks for the callbacks before it checks the header
dngModuleGetApi_v1_callbacks_first(host, out_api, grant) ==
    LET mem == AllocAnswer(heap, grant) IN
    IF host = NULL \/ out_api = NULL
    THEN Rejected(DNG_STATUS_INVALID_ARG)
    ELSE IF ~HostTables[host].alloc \/ ~HostTables[host].free
    THEN Rejected(DNG_STATUS_INVALID_ARG)
    ELSE IF HeaderMismatch(HostTables[host])
    THEN Rejected(DNG_STATUS_UNSUPPORTED)
    ELSE IF mem = NULL
    THEN Result(ctxs, heap, <<AllocCall(host, SizeOfCtx, AlignOfCtx, NULL)>>,
                DNG_STATUS_OUT_OF_MEMORY, <<>>)
    ELSE Result((mem :> NewCtx(host)) @@ ctxs,
                HostAlloc(heap, host, SizeOfCtx, AlignOfCtx, mem),
                <<AllocCall(host, SizeOfCtx, AlignOfCtx, mem)>>,
                DNG_STATUS_OK, <<ModuleApi(mem)>>)

dngModuleGetApi_v1(host, out_api, grant) ==
    LET mem == AllocAnswer(heap, grant) IN
    IF host = NULL \/ out_api = NULL
    THEN Rejected(DNG_STATUS_INVALID_ARG)
    ELSE IF HeaderMismatch(HostTables[host])
    THEN Rejected(DNG_STATUS_UNSUPPORTED)
    ELSE IF ~HostTables[host].alloc \/ ~HostTables[host].free
    THEN Rejected(DNG_STATUS_INVALID_ARG)
    ELSE IF mem = NULL
    THEN Result(ctxs, heap, <<AllocCall(host, SizeOfCtx, AlignOfCtx, NULL)>>,
                DNG_STATUS_OUT_OF_MEMORY, <<>>)
    ELSE Result((mem :> NewCtx(host)) @@ ctxs,
                HostAlloc(heap, host, SizeOfCtx, AlignOfCtx, mem),
                <<AllocCall(host, SizeOfCtx, AlignOfCtx, mem)>>,
                DNG_STATUS_OK, <<ModuleApi(mem)>>)

----------------------------------------------------------------------------
(* The host: what it calls, and the state machine *)

\* A context pointer the host passes: null, or a context it got and has not shut down.
CtxPtrs == {NULL} \cup DOMAIN ctxs

\* The bytes a caller's string view denotes.
TitleGiven(title) == [i \in 1..title.size |-> CallerByte(title.data, i)]

NoRecent == [width |-> 0, height |-> 0, title |-> <<>>]

\* The state after the call op on raw_ctx returned r.  A block handed out during
\* the call belongs to the context the call was made on (the context block to
\* the context it holds).
Commit(op, raw_ctx, r, rec) ==
    /\ heap' = r.heap
    /\ ctxs' = r.ctxs
    /\ owner' = [a \in Addrs |->
                    IF ~Live(r.heap, a) THEN NULL
                    ELSE IF Live(heap, a) THEN owner[a]
                    ELSE IF raw_ctx = NULL THEN a
                    ELSE raw_ctx]
    /\ recent' = rec
    /\ last' = [op |-> op, ctx |-> raw_ctx, status |-> catch_unwind_status(r),
                out |-> r.out, cb |-> r.cb, unwound |-> r.status = Err]

Init ==
    /\ heap = [blocks |-> [a \in Addrs |-> NoBlock], faults |-> {}]
    /\ owner = [a \in Addrs |-> NULL]
    /\ ctxs = <<>>
    /\ recent = <<>>
    /\ last = [op |-> "none", ctx |-> NULL, status |-> DNG_STATUS_OK, out |-> <<>>,
               cb |-> <<>>, unwound |-> FALSE]

\* The host loads one module instance at a time: it calls the entry point when
\* it holds no context (before the first success, or after a shutdown).
GetApi ==
    /\ DOMAIN ctxs = {}
    /\ \E host \in {NULL} \cup HostPtrs, out_api \in {NULL, SomeAddr},
          grant \in BOOLEAN :
         LET r == dngModuleGetApi_v1(host, out_api, grant)
         IN  Commit("entry", NULL, r,
                    IF r.status = DNG_STATUS_OK
                    THEN (r.out[1].window.ctx :> NoRecent) @@ recent
                    ELSE recent)

Create ==
    \E raw_ctx \in CtxPtrs, desc \in {NULL, SomeAddr}, d \in Descs,
       out_handle \in {NULL, SomeAddr}, grant \in BOOLEAN :
         /\ desc = NULL => d = NoDesc
         /\ LET r == window_create(raw_ctx, desc, d, out_handle, grant)
            IN  Commit("create", raw_ctx, r,
                       IF r.status = DNG_STATUS_OK
                       THEN [recent EXCEPT ![raw_ctx] =
                                [width |-> d.width, height |-> d.height,
                                 title |-> TitleGiven(d.title)]]
                       ELSE recent)

Destroy ==
    \E raw_ctx \in CtxPtrs, handle \in Handles :
         LET r == window_destroy(raw_ctx, handle)
         IN  Commit("destroy", raw_ctx, r,
                    IF r.status = DNG_STATUS_OK
                    THEN [recent EXCEPT ![raw_ctx] = NoRecent]
                    ELSE recent)

Poll ==
    \E raw_ctx \in CtxPtrs :
         Commit("poll", raw_ctx, window_poll(raw_ctx), recent)

GetSize ==
    \E raw_ctx \in CtxPtrs, handle \in Handles, out_size \in {NULL, SomeAddr} :
         Commit("get_size", raw_ctx, window_get_size(raw_ctx, handle, out_size), recent)

SetTitle ==
    \E raw_ctx \in CtxPtrs, handle \in Handles, title \in StrViews,
       grant \in BOOLEAN :
         LET r == window_set_title(raw_ctx, handle, title, grant)
         IN  Commit("set_title", raw_ctx, r,
                    IF r.status = DNG_STATUS_OK
                    THEN [recent EXCEPT ![raw_ctx].title = TitleGiven(title)]
                    ELSE recent)

Shutdown ==
    \E raw_ctx \in CtxPtrs, host \in {NULL} \cup HostPtrs :
         LET r == module_shutdown(raw_ctx, host)
         IN  Commit("shutdown", raw_ctx, r,
                    IF r.status = DNG_STATUS_OK THEN Released(recent, raw_ctx)
                    ELSE recent)

Next ==
    \/ GetApi
    \/ Create
    \/ Destroy
    \/ Poll
    \/ GetSize
    \/ SetTitle
    \/ Shutdown

Spec == Init /\ [][Next]_vars

----------------------------------------------------------------------------
(* Properties *)

\* The free callbacks among the callbacks cb.
Frees(cb) == {i \in DOMAIN cb : cb[i].kind = "free"}
Allocs(cb) == {i \in DOMAIN cb : cb[i].kind = "alloc"}

\* The blocks handed out and not handed back.
LiveBlocks(hp) == {a \in Addrs : Live(hp, a)}

\* cb holds exactly one free, of the block at ptr, with the size and alignment
\* that block was handed out with in hp.
FreedOnce(cb, hp, ptr) ==
    /\ Cardinality({i \in Frees(cb) : cb[i].ptr = ptr}) = 1
    /\ \A i \in Frees(cb) : cb[i].ptr = ptr =>
          /\ Live(hp, ptr)
          /\ cb[i].size = hp.blocks[ptr].size
          /\ cb[i].align = hp.blocks[ptr].align

\* C1: every block the module obtained from the host is released by exactly one
\* free carrying the size and alignment of its alloc.  No free ever names a
\* block that is not handed out or carries another size or alignment (no double
\* free), every block still handed out belongs to a context that has not been
\* shut down (no leak once shutdown has returned OK), and a shutdown with the
\* host table given to the entry point returns OK and frees, once each, exactly
\* the blocks the context still owns.
C1_ShutdownReleasesAll ==
    /\ heap.faults = {}
    /\ \A a \in LiveBlocks(heap) : owner[a] \in DOMAIN ctxs
    /\ \A p \in DOMAIN ctxs :
          LET r == module_shutdown(p, ctxs[p].host)
              mine == {a \in Addrs : owner[a] = p}
          IN  /\ r.status = DNG_STATUS_OK
              /\ r.heap.faults = {}
              /\ LiveBlocks(r.heap) = LiveBlocks(heap) \ mine
              /\ Allocs(r.cb) = {}
              /\ Cardinality(Frees(r.cb)) = Cardinality(mine)
              /\ \A a \in mine : FreedOnce(r.cb, heap, a)

\* Reached: a shutdown returned OK after freeing a title and the context block
\* through one host table.
C1_Witness ==
    /\ last.op = "shutdown"
    /\ last.status = DNG_STATUS_OK
    /\ Len(last.cb) = 2
    /\ last.cb[1].host = last.cb[2].host
    /\ LiveBlocks(heap) = {}

\* C2: a call that returns InvalidArgument leaves the contexts as they were and
\* makes no alloc or free callback.
C2_InvalidArgNoEffect ==
    [][last'.status = DNG_STATUS_INVALID_ARG =>
          /\ ctxs' = ctxs
          /\ heap' = heap
          /\ last'.cb = <<>>]_vars

\* C3: set_title on a Created window with the matching handle and a non-empty
\* title with non-null data, when the alloc callback answers null, returns
\* OutOfMemory, has freed the title held before exactly once with its size,
\* leaves the context without a title buffer and keeps the handle and size.
C3_SetTitleOutOfMemory ==
    \A p \in DOMAIN ctxs, handle \in Handles, title \in StrViews :
        (/\ ctxs[p].handle # 0
         /\ handle = ctxs[p].handle
         /\ title.size > 0
         /\ title.data # NULL)
        => LET r == window_set_title(p, handle, title, FALSE)
               old == ctxs[p].title
           IN  /\ r.status = DNG_STATUS_OUT_OF_MEMORY
               /\ r.ctxs[p].title = NULL
               /\ r.ctxs[p].title_size = 0
               /\ r.ctxs[p].handle = ctxs[p].handle
               /\ r.ctxs[p].size = ctxs[p].size
               /\ r.heap.faults = {}
               /\ LiveBlocks(r.heap) = LiveBlocks(heap) \ {old}
               /\ IF old = NULL THEN Frees(r.cb) = {}
                  ELSE Cardinality(Frees(r.cb)) = 1 /\ FreedOnce(r.cb, heap, old)
               /\ Cardinality(Allocs(r.cb)) = 1
               /\ \A i \in Allocs(r.cb) :
                     /\ r.cb[i].ptr = NULL
                     /\ \A j \in Frees(r.cb) : j < i

\* Reached: a set_title returned OutOfMemory after freeing the title held
\* before, and the window is still there without a title.
C3_Witness ==
    /\ last.op = "set_title"
    /\ last.status = DNG_STATUS_OUT_OF_MEMORY
    /\ Len(last.cb) = 2
    /\ last.cb[1].kind = "free"
    /\ last.cb[2].kind = "alloc"
    /\ ctxs[last.ctx].handle # 0
    /\ ctxs[last.ctx].title = NULL

\* The call r changed no context, no block, and made no callback.
Untouched(r) == r.ctxs = ctxs /\ r.heap = heap /\ r.cb = <<>>

\* C4 as stated: a create on a context whose window exists returns Fail and
\* changes nothing, whatever descriptor and output slot it is given.
C4_CreateTwiceFails_Original ==
    \A p \in DOMAIN ctxs, d \in Descs, out_handle \in {NULL, SomeAddr},
       grant \in BOOLEAN :
        ctxs[p].handle # 0
        => LET r == window_create(p, SomeAddr, d, out_handle, grant)
           IN  r.status = DNG_STATUS_FAIL /\ Untouched(r) /\ r.out = <<>>

\* C4 amended: a create on a context whose window exists, given non-null
\* descriptor and output pointers, returns Fail whatever the descriptor holds;
\* given a null descriptor or output pointer it returns InvalidArgument.  In
\* both cases the window's handle, size and title buffer are unchanged and no
\* alloc or free callback is made.
C4_CreateTwiceFails ==
    \A p \in DOMAIN ctxs, desc \in {NULL, SomeAddr}, d \in Descs,
       out_handle \in {NULL, SomeAddr}, grant \in BOOLEAN :
        ctxs[p].handle # 0
        => LET r == window_create(p, desc, d, out_handle, grant)
           IN  /\ r.status = IF desc # NULL /\ out_handle # NULL
                            THEN DNG_STATUS_FAIL
                            ELSE DNG_STATUS_INVALID_ARG
               /\ Untouched(r)
               /\ r.out = <<>>

\* Reached: a create returned Fail on a context whose window holds a title.
C4_Witness ==
    /\ last.op = "create"
    /\ last.status = DNG_STATUS_FAIL
    /\ ctxs[last.ctx].handle # 0
    /\ ctxs[last.ctx].title # NULL

\* The create and set_title calls whose title has size > 0 and null data.
BadTitles == {t \in StrViews : t.size > 0 /\ t.data = NULL}
BadTitleDescs == {d \in Descs : d.title \in BadTitles}

\* C5 as stated: a create or set_title whose title has size > 0 and null data
\* returns InvalidArgument and changes nothing, whatever the window state.
C5_NullTitleRejected_Original ==
    /\ \A p \in CtxPtrs, d \in BadTitleDescs, out_handle \in {NULL, SomeAddr},
          grant \in BOOLEAN :
           LET r == window_create(p, SomeAddr, d, out_handle, grant)
           IN  r.status = DNG_STATUS_INVALID_ARG /\ Untouched(r)
    /\ \A p \in CtxPtrs, handle \in Handles, title \in BadTitles,
          grant \in BOOLEAN :
           LET r == window_set_title(p, handle, title, grant)
           IN  r.status = DNG_STATUS_INVALID_ARG /\ Untouched(r)

\* C5 amended: such a call changes no field of the context and makes no alloc
\* or free callback, whatever the window state; set_title returns
\* InvalidArgument, and so does create, except that a create with non-null
\* context and output pointers on a context whose window already exists
\* returns Fail.
C5_NullTitleRejected ==
    /\ \A p \in CtxPtrs, d \in BadTitleDescs, out_handle \in {NULL, SomeAddr},
          grant \in BOOLEAN :
           LET r == window_create(p, SomeAddr, d, out_handle, grant)
               exists == p # NULL /\ out_handle # NULL /\ ctxs[p].handle # 0
           IN  /\ r.status = IF exists THEN DNG_STATUS_FAIL ELSE DNG_STATUS_INVALID_ARG
               /\ Untouched(r)
               /\ r.out = <<>>
    /\ \A p \in CtxPtrs, handle \in Handles, title \in BadTitles,
          grant \in BOOLEAN :
           LET r == window_set_title(p, handle, title, grant)
           IN  r.status = DNG_STATUS_INVALID_ARG /\ Untouched(r)

\* Reached: a set_title was rejected with InvalidArgument on a context whose
\* window holds a title (a set_title with the window's handle is rejected only
\* for its title).
C5_Witness ==
    /\ last.op = "set_title"
    /\ last.status = DNG_STATUS_INVALID_ARG
    /\ last.ctx # NULL
    /\ ctxs[last.ctx].handle # 0
    /\ ctxs[last.ctx].title # NULL

\* The host tables with the compiled struct size, ABI version 1, alloc and free.
ValidHosts ==
    {h \in HostPtrs : /\ HostTables[h].header.struct_size = SizeOfHostApi
                      /\ HostTables[h].header.abi_version = DNG_ABI_VERSION_V1
                      /\ HostTables[h].alloc
                      /\ HostTables[h].free}

\* The entry point returned OK for host, with the context at mem: the table it
\* wrote carries the compiled sizes and ABI version 1, every entry is present,
\* and its ctx is a freshly initialised context obtained by one alloc callback.
EntrySucceeded(r, host, mem) ==
    /\ r.status = DNG_STATUS_OK
    /\ Len(r.out) = 1
    /\ r.out[1].header = [struct_size |-> SizeOfModuleApi, abi_version |-> 1]
    /\ r.out[1].window.header = [struct_size |-> SizeOfWindowApi, abi_version |-> 1]
    /\ r.out[1].window.create /\ r.out[1].window.destroy /\ r.out[1].window.poll
    /\ r.out[1].window.get_size /\ r.out[1].window.set_title /\ r.out[1].shutdown
    /\ r.out[1].window.ctx = mem
    /\ mem \in DOMAIN r.ctxs
    /\ mem \notin DOMAIN ctxs
    /\ r.ctxs[mem].handle = 0
    /\ r.ctxs[mem].size = [width |-> 0, height |-> 0]
    /\ r.ctxs[mem].title = NULL
    /\ r.ctxs[mem].title_size = 0
    /\ r.cb = <<AllocCall(host, SizeOfCtx, AlignOfCtx, mem)>>
    /\ LiveBlocks(r.heap) = LiveBlocks(heap) \cup {mem}

\* C6 as stated: for every valid host table the entry point returns OK and
\* writes a module table with the compiled headers and a fresh context.
C6_EntrySucceeds_Original ==
    \A host \in ValidHosts, grant \in BOOLEAN :
        EntrySucceeded(dngModuleGetApi_v1(host, SomeAddr, grant), host,
                       AllocAnswer(heap, grant))

\* C6 amended: for every valid host table and non-null output pointer, the
\* entry point returns OK with such a module table when the alloc callback
\* answers with a block; when the alloc callback answers null it returns
\* OutOfMemory and writes nothing.
C6_EntrySucceeds ==
    \A host \in ValidHosts, grant \in BOOLEAN :
        LET r == dngModuleGetApi_v1(host, SomeAddr, grant)
            mem == AllocAnswer(heap, grant)
        IN  IF mem # NULL
            THEN EntrySucceeded(r, host, mem)
            ELSE /\ r.status = DNG_STATUS_OUT_OF_MEMORY
                 /\ r.out = <<>>
                 /\ r.ctxs = ctxs
                 /\ r.heap = heap
                 /\ r.cb = <<AllocCall(host, SizeOfCtx, AlignOfCtx, NULL)>>

\* Reached: the entry point returned OK and the context its table names is
\* fresh.
C6_Witness ==
    /\ last.op = "entry"
    /\ last.status = DNG_STATUS_OK
    /\ Len(last.out) = 1
    /\ last.out[1].window.ctx \in DOMAIN ctxs
    /\ ctxs[last.out[1].window.ctx].handle = 0

\* The host tables whose header does not match.
MismatchedHosts ==
    {h \in HostPtrs : \/ HostTables[h].header.struct_size # SizeOfHostApi
                      \/ HostTables[h].header.abi_version # DNG_ABI_VERSION_V1}

\* C7: an entry-point call with non-null host and output pointers whose header
\* has another abi_version or struct_size returns Unsupported, writes nothing
\* to the output slot, makes no alloc callback and creates no context.
C7_MismatchUnsupported ==
    \A host \in MismatchedHosts, grant \in BOOLEAN :
        LET r == dngModuleGetApi_v1(host, SomeAddr, grant)
        IN  /\ r.status = DNG_STATUS_UNSUPPORTED
            /\ r.out = <<>>
            /\ Untouched(r)

\* Reached: the entry point returned Unsupported and no context exists.
C7_Witness ==
    /\ last.op = "entry"
    /\ last.status = DNG_STATUS_UNSUPPORTED
    /\ last.out = <<>>
    /\ DOMAIN ctxs = {}

\* C8: whenever a window is Created, get_size with the matching handle and a
\* non-null output returns OK and writes exactly the width and height given to
\* the most recent successful create, whatever calls came in between.
C8_GetSizeReturnsCreated ==
    \A p \in DOMAIN ctxs :
        ctxs[p].handle # 0
        => LET r == window_get_size(p, ctxs[p].handle, SomeAddr)
           IN  /\ r.status = DNG_STATUS_OK
               /\ r.out = <<[width |-> recent[p].width, height |-> recent[p].height]>>

\* Reached: a get_size returned OK and wrote a size with different width and
\* height, on a window that holds a title.
C8_Witness ==
    /\ last.op = "get_size"
    /\ last.status = DNG_STATUS_OK
    /\ Len(last.out) = 1
    /\ last.out[1].width # last.out[1].height
    /\ last.out[1].width = recent[last.ctx].width
    /\ ctxs[last.ctx].title # NULL

\* C9: the title buffer a context holds is a block the module obtained for it
\* and has not freed, never the caller's memory, and its recorded length and
\* its bytes are those of the title given to the most recent successful create
\* or set_title; the title buffers held before have been freed.
C9_TitleIsOwnedCopy ==
    \A p \in DOMAIN ctxs :
        /\ ctxs[p].title # NULL
           => /\ ctxs[p].title \in Addrs
              /\ ctxs[p].title \notin CallerPtrs
              /\ Live(heap, ctxs[p].title)
              /\ owner[ctxs[p].title] = p
              /\ heap.blocks[ctxs[p].title].size = ctxs[p].title_size
              /\ ctxs[p].title_size = Len(recent[p].title)
              /\ heap.blocks[ctxs[p].title].bytes = recent[p].title
        /\ {a \in Addrs : owner[a] = p} \subseteq {p, ctxs[p].title}
        /\ heap.faults = {}

\* Reached: a set_title replaced a held title (one free, one alloc) with a
\* two-byte title that the context now holds.
C9_Witness ==
    /\ last.op = "set_title"
    /\ last.status = DNG_STATUS_OK
    /\ Len(last.cb) = 2
    /\ ctxs[last.ctx].title # NULL
    /\ heap.blocks[ctxs[last.ctx].title].bytes = <<2, 1>>

\* C10: a destroy with handle 0 or with a handle other than the stored one
\* returns InvalidArgument, makes no callback and leaves the context
\* unchanged; a destroy with the matching nonzero handle returns OK, frees the
\* title buffer if one is held, and sets the handle and size to zero.
C10_Destroy ==
    /\ \A handle \in Handles :
          LET r == window_destroy(NULL, handle)
          IN  r.status = DNG_STATUS_INVALID_ARG /\ Untouched(r)
    /\ \A p \in DOMAIN ctxs, handle \in Handles :
          LET r == window_destroy(p, handle)
              old == ctxs[p].title
          IN  IF handle = 0 \/ handle # ctxs[p].handle
              THEN r.status = DNG_STATUS_INVALID_ARG /\ Untouched(r)
              ELSE /\ r.status = DNG_STATUS_OK
                   /\ r.ctxs[p].handle = 0
                   /\ r.ctxs[p].size = [width |-> 0, height |-> 0]
                   /\ r.ctxs[p].title = NULL
                   /\ r.ctxs[p].title_size = 0
                   /\ r.ctxs[p].host = ctxs[p].host
                   /\ Allocs(r.cb) = {}
                   /\ r.heap.faults = {}
                   /\ LiveBlocks(r.heap) = LiveBlocks(heap) \ {old}
                   /\ IF old = NULL THEN r.cb = <<>>
                      ELSE Len(r.cb) = 1 /\ FreedOnce(r.cb, heap, old)

\* Reached: a destroy returned OK after freeing the title, and the window is
\* gone.
C10_Witness ==
    /\ last.op = "destroy"
    /\ last.status = DNG_STATUS_OK
    /\ Len(last.cb) = 1
    /\ ctxs[last.ctx].handle = 0
    /\ ctxs[last.ctx].size = [width |-> 0, height |-> 0]

\* C11: the stored handle of a context is 0 or the sentinel 1.  A step changes
\* it from 0 to nonzero only when it is a create on that context that returned
\* OK, and from nonzero to 0 only when it is a destroy on that context that
\* returned OK; no other operation and no failed call changes it, and a context
\* comes into being with handle 0.
C11_HandleLifecycle ==
    [][/\ \A p \in DOMAIN ctxs' : ctxs'[p].handle \in {0, HandleSentinel}
       /\ \A p \in DOMAIN ctxs' \ DOMAIN ctxs : ctxs'[p].handle = 0
       /\ \A p \in DOMAIN ctxs \cap DOMAIN ctxs' :
             ctxs'[p].handle # ctxs[p].handle =>
                /\ last'.ctx = p
                /\ last'.status = DNG_STATUS_OK
                /\ \/ /\ last'.op = "create"
                      /\ ctxs[p].handle = 0
                      /\ ctxs'[p].handle = HandleSentinel
                   \/ /\ last'.op = "destroy"
                      /\ ctxs[p].handle = HandleSentinel
                      /\ ctxs'[p].handle = 0]_vars

\* Reached: a created window still holds the sentinel handle after a set_title
\* on it failed for lack of memory.
C11_Witness ==
    /\ last.op = "set_title"
    /\ last.status = DNG_STATUS_OUT_OF_MEMORY
    /\ ctxs[last.ctx].handle = HandleSentinel

\* The callbacks cb all went through the host table host: its alloc and free,
\* with its user token.
ThroughHost(cb, host) ==
    \A i \in DOMAIN cb :
        /\ cb[i].host = host
        /\ cb[i].user = HostTables[host].user

\* C12: every alloc and free callback the module makes is a callback of the
\* host table that was passed to the entry point and carries that table's user
\* token: the entry point allocates the context through the table it is given,
\* create, set_title and destroy call back through the table of their context,
\* and shutdown frees the title and the context block through the table that
\* allocated them, whatever table it is called with.
C12_CallbacksThroughEntryHost ==
    /\ \A host \in HostPtrs, grant \in BOOLEAN :
          ThroughHost(dngModuleGetApi_v1(host, SomeAddr, grant).cb, host)
    /\ (last.op \in {"create", "set_title", "destroy"} /\ last.ctx # NULL)
          => ThroughHost(last.cb, ctxs[last.ctx].host)
    /\ \A p \in DOMAIN ctxs, host \in HostPtrs :
          ThroughHost(module_shutdown(p, host).cb, ctxs[p].host)

----------------------------------------------------------------------------
(* A host that holds two module instances *)

\* The descriptors and titles such a host passes: accepted ones, with the
\* largest size, and an empty or a longest title.
TwoTitles == {t \in StrViews : t.data # NULL /\ t.size \in {0, MaxTitleLen}}
TwoDescs ==
    {d \in Descs : /\ d.flags = 0
                   /\ d.width = MaxDim
                   /\ d.height = 0
                   /\ d.title \in TwoTitles}

\* The entry point is called a second time while the first context lives.
GetApiTwo ==
    /\ \A p, q \in DOMAIN ctxs : p = q
    /\ \E host \in ValidHosts, grant \in BOOLEAN :
         LET r == dngModuleGetApi_v1(host, SomeAddr, grant)
         IN  Commit("entry", NULL, r,
                    IF r.status = DNG_STATUS_OK
                    THEN (r.out[1].window.ctx :> NoRecent) @@ recent
                    ELSE recent)

CreateTwo ==
    \E raw_ctx \in DOMAIN ctxs, d \in TwoDescs, grant \in BOOLEAN :
         LET r == window_create(raw_ctx, SomeAddr, d, SomeAddr, grant)
         IN  Commit("create", raw_ctx, r,
                    IF r.status = DNG_STATUS_OK
                    THEN [recent EXCEPT ![raw_ctx] =
                             [width |-> d.width, height |-> d.height,
                              title |-> TitleGiven(d.title)]]
                    ELSE recent)

DestroyTwo ==
    \E raw_ctx \in DOMAIN ctxs, handle \in {0, HandleSentinel} :
         LET r == window_destroy(raw_ctx, handle)
         IN  Commit("destroy", raw_ctx, r,
                    IF r.status = DNG_STATUS_OK
                    THEN [recent EXCEPT ![raw_ctx] = NoRecent]
                    ELSE recent)

PollTwo ==
    \E raw_ctx \in DOMAIN ctxs :
         Commit("poll", raw_ctx, window_poll(raw_ctx), recent)

GetSizeTwo ==
    \E raw_ctx \in DOMAIN ctxs, handle \in {0, HandleSentinel} :
         Commit("get_size", raw_ctx, window_get_size(raw_ctx, handle, SomeAddr), recent)

SetTitleTwo ==
    \E raw_ctx \in DOMAIN ctxs, title \in TwoTitles, grant \in BOOLEAN :
         LET r == window_set_title(raw_ctx, HandleSentinel, title, grant)
         IN  Commit("set_title", raw_ctx, r,
                    IF r.status = DNG_STATUS_OK
                    THEN [recent EXCEPT ![raw_ctx].title = TitleGiven(title)]
                    ELSE recent)

ShutdownTwo ==
    \E raw_ctx \in DOMAIN ctxs :
         LET r == module_shutdown(raw_ctx, ctxs[raw_ctx].host)
         IN  Commit("shutdown", raw_ctx, r,
                    IF r.status = DNG_STATUS_OK THEN Released(recent, raw_ctx)
                    ELSE recent)

NextTwo ==
    \/ GetApiTwo
    \/ CreateTwo
    \/ DestroyTwo
    \/ PollTwo
    \/ GetSizeTwo
    \/ SetTitleTwo
    \/ ShutdownTwo

SpecTwo == Init /\ [][NextTwo]_vars

----------------------------------------------------------------------------
(* Bodies that panic *)

\* The operations a host calls.
OpNames == {"entry", "create", "destroy", "poll", "get_size", "set_title", "shutdown"}

\* The body of a call panics at its first step, before any effect.
Unwind ==
    \E op \in OpNames, raw_ctx \in CtxPtrs :
         /\ op = "entry" <=> raw_ctx = NULL
         /\ Commit(op, raw_ctx, Unwound(Rejected(DNG_STATUS_OK)), recent)

\* The body of a destroy or a set_title panics at its last step, its effects
\* made and its status not yet returned.
UnwindLate ==
    \/ \E raw_ctx \in DOMAIN ctxs :
          LET r == window_destroy(raw_ctx, ctxs[raw_ctx].handle)
          IN  Commit("destroy", raw_ctx, Unwound(r),
                     IF r.status = DNG_STATUS_OK
                     THEN [recent EXCEPT ![raw_ctx] = NoRecent]
                     ELSE recent)
    \/ \E raw_ctx \in DOMAIN ctxs, title \in TwoTitles, grant \in BOOLEAN :
          LET r == window_set_title(raw_ctx, ctxs[raw_ctx].handle, title, grant)
          IN  Commit("set_title", raw_ctx, Unwound(r),
                     IF r.status = DNG_STATUS_OK
                     THEN [recent EXCEPT ![raw_ctx].title = TitleGiven(title)]
                     ELSE recent)

NextUnwind ==
    \/ NextTwo
    \/ Unwind
    \/ UnwindLate

\* The module under that host, with bodies that may panic.
SpecUnwind == Init /\ [][NextUnwind]_vars

\* The status codes of the ABI.
Statuses ==
    {DNG_STATUS_OK, DNG_STATUS_FAIL, DNG_STATUS_INVALID_ARG,
     DNG_STATUS_OUT_OF_MEMORY, DNG_STATUS_UNSUPPORTED}

----------------------------------------------------------------------------

\* The call outcome r left the context q alone: its handle, size, host and
\* title fields, and every block it owns with the bytes in it.
Kept(r, q) ==
    /\ q \in DOMAIN r.ctxs
    /\ r.ctxs[q] = ctxs[q]
    /\ \A a \in Addrs : owner[a] = q => r.heap.blocks[a] = heap.blocks[a]

\* C14: a successful entry-point call made while a context lives yields another
\* context, obtained by one alloc callback of its own, and leaves the living
\* one alone; every operation made through one of two contexts, with any
\* arguments, leaves the other's handle, size and title unchanged.
C14_ContextsIndependent ==
    /\ \A host \in HostPtrs, grant \in BOOLEAN :
          LET r == dngModuleGetApi_v1(host, SomeAddr, grant)
          IN  /\ \A q \in DOMAIN ctxs : Kept(r, q)
              /\ r.status = DNG_STATUS_OK =>
                    /\ r.out[1].window.ctx \notin DOMAIN ctxs
                    /\ r.out[1].window.ctx \in DOMAIN r.ctxs
                    /\ r.cb = <<AllocCall(host, SizeOfCtx, AlignOfCtx,
                                          r.out[1].window.ctx)>>
    /\ \A p \in DOMAIN ctxs : \A q \in DOMAIN ctxs \ {p} :
          /\ \A d \in Descs, out_handle \in {NULL, SomeAddr}, grant \in BOOLEAN :
                Kept(window_create(p, SomeAddr, d, out_handle, grant), q)
          /\ \A handle \in Handles : Kept(window_destroy(p, handle), q)
          /\ Kept(window_poll(p), q)
          /\ \A handle \in Handles, out_size \in {NULL, SomeAddr} :
                Kept(window_get_size(p, handle, out_size), q)
          /\ \A handle \in Handles, title \in StrViews, grant \in BOOLEAN :
                Kept(window_set_title(p, handle, title, grant), q)
          /\ \A host \in HostPtrs :
                LET r == module_shutdown(p, host)
                IN  IF r.status = DNG_STATUS_OK
                    THEN /\ q \in DOMAIN r.ctxs
                         /\ r.ctxs[q] = ctxs[q]
                         /\ \A a \in Addrs :
                               owner[a] = q => r.heap.blocks[a] = heap.blocks[a]
                    ELSE Kept(r, q)

\* Reached: two contexts live, one holds a window with a title and its size,
\* and a window was just created through the other.
C14_Witness ==
    \E p \in DOMAIN ctxs : \E q \in DOMAIN ctxs \ {p} :
        /\ last.op = "create"
        /\ last.ctx = p
        /\ last.status = DNG_STATUS_OK
        /\ ctxs[p].handle = HandleSentinel
        /\ ctxs[q].handle = HandleSentinel
        /\ ctxs[q].title # NULL
        /\ ctxs[q].size.width = MaxDim

\* C15: a create on a context without a window, with a valid descriptor (flags
\* 0, a non-empty title with non-null data), whose alloc callback answers null
\* returns OutOfMemory; the stored handle stays 0, nothing is written to the
\* output handle slot, and the context holds no title buffer.  The one callback
\* made is the refused alloc of the title's size.
C15_CreateOutOfMemory ==
    \A p \in DOMAIN ctxs, d \in Descs, grant \in BOOLEAN :
        (/\ ctxs[p].handle = 0
         /\ d.flags = 0
         /\ d.title.size > 0
         /\ d.title.data # NULL
         /\ AllocAnswer(heap, grant) = NULL)
        => LET r == window_create(p, SomeAddr, d, SomeAddr, grant)
           IN  /\ r.status = DNG_STATUS_OUT_OF_MEMORY
               /\ r.ctxs[p].handle = 0
               /\ r.out = <<>>
               /\ r.ctxs[p].title = NULL
               /\ r.ctxs[p].title_size = 0
               /\ r.heap = heap
               /\ r.cb = <<AllocCall(ctxs[p].host, d.title.size, TitleAlign, NULL)>>

\* Reached: a create returned OutOfMemory after its alloc was refused, and the
\* context has no window and no title.
C15_Witness ==
    /\ last.op = "create"
    /\ last.status = DNG_STATUS_OUT_OF_MEMORY
    /\ last.out = <<>>
    /\ Allocs(last.cb) # {}
    /\ ctxs[last.ctx].handle = 0
    /\ ctxs[last.ctx].title = NULL

\* In the callbacks cb every free comes before every alloc, and there is at
\* most one of each.
FreeThenAlloc(cb) ==
    /\ Cardinality(Frees(cb)) <= 1
    /\ Cardinality(Allocs(cb)) <= 1
    /\ \A i \in Frees(cb), j \in Allocs(cb) : i < j

\* C16: when create or set_title replaces the title, the free of the buffer
\* held before, carrying the size recorded when it was allocated, comes before
\* the alloc of the new one; a context owns at most one title buffer at any
\* time; and the recorded title length is nonzero exactly when a buffer is
\* held, and is then the size that buffer was allocated with.
C16_TitleReplacement ==
    /\ heap.faults = {}
    /\ \A p \in DOMAIN ctxs :
          /\ ctxs[p].title_size # 0 <=> ctxs[p].title # NULL
          /\ {a \in Addrs : owner[a] = p /\ a # p} = {ctxs[p].title} \ {NULL}
          /\ ctxs[p].title # NULL =>
                /\ Live(heap, ctxs[p].title)
                /\ heap.blocks[ctxs[p].title].size = ctxs[p].title_size
                /\ heap.blocks[ctxs[p].title].align = TitleAlign
    /\ \A p \in DOMAIN ctxs, handle \in Handles, title \in StrViews, grant \in BOOLEAN :
          LET r == window_set_title(p, handle, title, grant)
              old == ctxs[p].title
          IN  /\ FreeThenAlloc(r.cb)
              /\ r.heap.faults = {}
              /\ \A i \in Frees(r.cb) :
                    r.cb[i] = FreeCall(ctxs[p].host, old, ctxs[p].title_size, TitleAlign)
              /\ (Allocs(r.cb) # {} /\ old # NULL) => Frees(r.cb) # {}
    /\ \A p \in DOMAIN ctxs, d \in Descs, grant \in BOOLEAN :
          LET r == window_create(p, SomeAddr, d, SomeAddr, grant)
              old == ctxs[p].title
          IN  /\ FreeThenAlloc(r.cb)
              /\ r.heap.faults = {}
              /\ \A i \in Frees(r.cb) :
                    r.cb[i] = FreeCall(ctxs[p].host, old, ctxs[p].title_size, TitleAlign)
              /\ (Allocs(r.cb) # {} /\ old # NULL) => Frees(r.cb) # {}

\* Reached: a set_title replaced a title by a longer one: it freed the old
\* buffer, then allocated the new one, whose size the context records.
C16_Witness ==
    /\ last.op = "set_title"
    /\ last.status = DNG_STATUS_OK
    /\ Len(last.cb) = 2
    /\ last.cb[1].kind = "free"
    /\ last.cb[2].kind = "alloc"
    /\ last.cb[1].size < last.cb[2].size
    /\ ctxs[last.ctx].title_size = last.cb[2].size

\* C17: poll and get_size never change a context and never make a callback;
\* poll returns OK for every non-null context, with or without a window, and
\* InvalidArgument for a null one; get_size writes to its output exactly when
\* it returns OK.
C17_PollGetSizeReadOnly ==
    /\ window_poll(NULL).status = DNG_STATUS_INVALID_ARG
    /\ Untouched(window_poll(NULL))
    /\ \A p \in DOMAIN ctxs :
          /\ window_poll(p).status = DNG_STATUS_OK
          /\ Untouched(window_poll(p))
          /\ window_poll(p).out = <<>>
    /\ \A p \in CtxPtrs, handle \in Handles, out_size \in {NULL, SomeAddr} :
          LET r == window_get_size(p, handle, out_size)
          IN  /\ Untouched(r)
              /\ r.status \in {DNG_STATUS_OK, DNG_STATUS_INVALID_ARG}
              /\ r.out # <<>> <=> r.status = DNG_STATUS_OK
    /\ last.op \in {"poll", "get_size"} => last.cb = <<>>

\* Reached: a poll on a context with a window returned OK, made no callback
\* and wrote nothing, and the window's title is still held.
C17_Witness ==
    /\ last.op = "poll"
    /\ last.status = DNG_STATUS_OK
    /\ last.cb = <<>>
    /\ last.out = <<>>
    /\ ctxs[last.ctx].handle = HandleSentinel
    /\ ctxs[last.ctx].title # NULL

\* The title views of length zero, with a null or a non-null data pointer.
EmptyTitles == {t \in StrViews : t.size = 0}

\* C18: a create (on a context without a window, flags 0) or a set_title (with
\* the stored nonzero handle) given a title of length zero, whatever its data
\* pointer and whatever the allocator would answer, returns OK without an
\* alloc callback and leaves the context with no title buffer; the set_title
\* frees the buffer held before exactly once, and makes no callback when none
\* was held.
C18_EmptyTitle ==
    \A p \in DOMAIN ctxs, title \in EmptyTitles, grant \in BOOLEAN :
        LET old == ctxs[p].title IN
        /\ ctxs[p].handle # 0 =>
              LET r == window_set_title(p, ctxs[p].handle, title, grant)
              IN  /\ r.status = DNG_STATUS_OK
                  /\ Allocs(r.cb) = {}
                  /\ r.ctxs[p] = [ctxs[p] EXCEPT !.title = NULL, !.title_size = 0]
                  /\ r.heap.faults = {}
                  /\ LiveBlocks(r.heap) = LiveBlocks(heap) \ {old}
                  /\ IF old = NULL THEN r.cb = <<>>
                     ELSE Len(r.cb) = 1 /\ FreedOnce(r.cb, heap, old)
        /\ ctxs[p].handle = 0 =>
              \A width \in Dims, height \in Dims :
                 LET d == [width |-> width, height |-> height, title |-> title,
                           flags |-> 0]
                     r == window_create(p, SomeAddr, d, SomeAddr, grant)
                 IN  /\ r.status = DNG_STATUS_OK
                     /\ r.cb = <<>>
                     /\ r.heap = heap
                     /\ r.ctxs[p].title = NULL
                     /\ r.ctxs[p].title_size = 0
                     /\ r.ctxs[p].handle = HandleSentinel

\* Reached: a set_title with an empty title returned OK after one free and no
\* alloc, and the window has no title buffer.
C18_Witness ==
    /\ last.op = "set_title"
    /\ last.status = DNG_STATUS_OK
    /\ Len(last.cb) = 1
    /\ last.cb[1].kind = "free"
    /\ ctxs[last.ctx].handle = HandleSentinel
    /\ ctxs[last.ctx].title = NULL
    /\ recent[last.ctx].title = <<>>

\* The status the entry point's checks, taken in their order, give for the
\* host table pointer host, the output pointer out_api and the allocator's
\* answer mem.
EntryStatus(host, out_api, mem) ==
    IF host = NULL \/ out_api = NULL
    THEN DNG_STATUS_INVALID_ARG
    ELSE IF \/ HostTables[host].header.struct_size # SizeOfHostApi
            \/ HostTables[host].header.abi_version # DNG_ABI_VERSION_V1
    THEN DNG_STATUS_UNSUPPORTED
    ELSE IF ~HostTables[host].alloc \/ ~HostTables[host].free
    THEN DNG_STATUS_INVALID_ARG
    ELSE IF mem = NULL
    THEN DNG_STATUS_OUT_OF_MEMORY
    ELSE DNG_STATUS_OK

\* C19: the entry point returns the first failure of its checks in this order:
\* a null host table or output pointer gives InvalidArgument; a header whose
\* size or ABI version does not match gives Unsupported, also when alloc or
\* free is absent; an absent alloc or free gives InvalidArgument; a null answer
\* to the context allocation gives OutOfMemory.  On every failure nothing is
\* written to the output, no free callback is made, no context comes into
\* being, and the only alloc callback is the refused context allocation of the
\* OutOfMemory case.
C19_EntryCheckOrder ==
    \A host \in {NULL} \cup HostPtrs, out_api \in {NULL, SomeAddr}, grant \in BOOLEAN :
        LET r == dngModuleGetApi_v1(host, out_api, grant)
        IN  /\ r.status = EntryStatus(host, out_api, AllocAnswer(heap, grant))
            /\ r.status # DNG_STATUS_OK =>
                  /\ r.out = <<>>
                  /\ Frees(r.cb) = {}
                  /\ r.ctxs = ctxs
                  /\ r.heap = heap
                  /\ IF r.status = DNG_STATUS_OUT_OF_MEMORY
                     THEN r.cb = <<AllocCall(host, SizeOfCtx, AlignOfCtx, NULL)>>
                     ELSE r.cb = <<>>

\* Reached: the entry point returned OutOfMemory after its one alloc callback
\* was answered null; no context exists and nothing was written.
C19_Witness ==
    /\ last.op = "entry"
    /\ last.status = DNG_STATUS_OUT_OF_MEMORY
    /\ Len(last.cb) = 1
    /\ last.cb[1].kind = "alloc"
    /\ last.cb[1].ptr = NULL
    /\ last.out = <<>>
    /\ DOMAIN ctxs = {}

ZeroSize == [width |-> 0, height |-> 0]

\* C20 as stated: a context whose stored handle is 0 has the stored size 0x0
\* and holds no title buffer, also after a create whose title allocation
\* failed.
C20_AbsentIsEmpty_Original ==
    \A p \in DOMAIN ctxs :
        ctxs[p].handle = 0 =>
            /\ ctxs[p].size = ZeroSize
            /\ ctxs[p].title = NULL
            /\ ctxs[p].title_size = 0

\* After the call outcome r the context p has no window and a stored size
\* other than 0x0.
AbsentSized(r, p) ==
    /\ p \in DOMAIN r.ctxs
    /\ r.ctxs[p].handle = 0
    /\ r.ctxs[p].size # ZeroSize

\* If so, p had no window before the call either, and the same stored size.
Carried(r, p) ==
    AbsentSized(r, p) => ctxs[p].handle = 0 /\ r.ctxs[p].size = ctxs[p].size

\* C20: a context whose stored handle is 0 holds no title buffer.  Its stored
\* size is 0x0 after the entry point and after a destroy; a create that fails
\* with OutOfMemory leaves the width and height of its descriptor stored, with
\* the handle still 0, and no other call, failed or not, gives a context without
\* a window a stored size it did not have before.
C20_AbsentIsEmpty ==
    /\ \A p \in DOMAIN ctxs :
          ctxs[p].handle = 0 => ctxs[p].title = NULL /\ ctxs[p].title_size = 0
    /\ \A host \in HostPtrs, grant \in BOOLEAN :
          LET r == dngModuleGetApi_v1(host, SomeAddr, grant)
          IN  r.status = DNG_STATUS_OK =>
                 r.ctxs[r.out[1].window.ctx] = NewCtx(host) /\ NewCtx(host).size = ZeroSize
    /\ \A p \in DOMAIN ctxs :
          /\ \A d \in Descs, out_handle \in {NULL, SomeAddr}, grant \in BOOLEAN :
                LET r == window_create(p, SomeAddr, d, out_handle, grant)
                IN  IF r.status = DNG_STATUS_OUT_OF_MEMORY
                    THEN /\ r.ctxs[p].handle = 0
                         /\ r.ctxs[p].size = [width |-> d.width, height |-> d.height]
                         /\ r.ctxs[p].title = NULL
                    ELSE Carried(r, p)
          /\ Carried(window_create(p, NULL, NoDesc, SomeAddr, TRUE), p)
          /\ \A handle \in Handles :
                LET r == window_destroy(p, handle)
                IN  /\ Carried(r, p)
                    /\ r.status = DNG_STATUS_OK => r.ctxs[p].size = ZeroSize
          /\ Carried(window_poll(p), p)
          /\ \A handle \in Handles, out_size \in {NULL, SomeAddr} :
                Carried(window_get_size(p, handle, out_size), p)
          /\ \A handle \in Handles, title \in StrViews, grant \in BOOLEAN :
                Carried(window_set_title(p, handle, title, grant), p)
          /\ \A host \in {NULL} \cup HostPtrs : Carried(module_shutdown(p, host), p)

\* Reached: a create failed with OutOfMemory and the context has no window, no
\* title, and the width of the refused descriptor as its stored size.
C20_Witness ==
    /\ last.op = "create"
    /\ last.status = DNG_STATUS_OUT_OF_MEMORY
    /\ ctxs[last.ctx].handle = 0
    /\ ctxs[last.ctx].title = NULL
    /\ ctxs[last.ctx].size.width = MaxDim

====
